---------------------------- MODULE Spec2Model ----------------------------
(***************************************************************************)
(* A model of the aerospike-mapper-go struct <-> record codec: the `aero`  *)
(* tag parser, the reflection helpers, Encode and Decode.                   *)
(*                                                                         *)
(* Go values are records [t |-> <type name>, v |-> <payload>]:              *)
(*   string, bool, integers   v is the TLA+ string, boolean or integer      *)
(*   pointer, interface       v is << >> (nil) or <<x>> (x the pointee or   *)
(*                            the dynamic value)                            *)
(*   struct                   v is the sequence of the field values         *)
(*   [N]byte, []byte          v is the sequence of the bytes                *)
(*   other slices             v is the sequence of the element values       *)
(*   map                      v is a function from the keys (TLA+ strings   *)
(*                            or integers) to the values                    *)
(* A nil slice or map and an empty one are the same payload.  The invalid   *)
(* reflect.Value (reflect.Value{}) is the value Invalid.                    *)
(*                                                                         *)
(* A string that is parsed character by character in the code (a tag) is a  *)
(* sequence of lexemes: ",", " " and maximal words without comma or space.  *)
(*                                                                         *)
(* Every destination is passed as a pointer to a struct whose fields are    *)
(* exported, and no two fields of one struct type share a bin name.         *)
(***************************************************************************)
EXTENDS Integers, Sequences, FiniteSets, TLC

VARIABLES
    typ,    \* the application struct type the caller encodes and decodes into
    dst,    \* the caller's destination struct (the v of Decode(record, &v))
    enc,    \* the last Encode call: its argument s, its error and its Record
    call,   \* the last Decode call: the shape of its source, the source, the
            \* record in it, the destination before the call and the result
    tagCall,  \* the last parseTag call: the tag string, the error and the tag
    conv,     \* the convertElementType calls on one source and target type:
              \* the source, the target type and the results of two calls
    keyOrder  \* the order in which the runtime hands out the keys of a map
              \* (reflect.Value.MapKeys) during the current call

vars == <<typ, dst, enc, call, tagCall, conv, keyOrder>>

----------------------------------------------------------------------------
(* Constants of the mapper package.                                        *)

metaTagGeneration == "generation"
metaTagExpiration == "expiration"
metaTagNamespace == "namespace"
metaTagSetName == "set_name"
metaTagDigest == "digest"
metaTagUserKey == "user_key"

tagValueMeta == "meta"
tagValueOmit == "omit"
tagValueOmitempty == "omitempty"

timeType == "time.Time"

\* reflect.Value{}: the zero reflect.Value, of kind Invalid.
Invalid == [t |-> "invalid", v |-> << >>]

reflectZeroValue == Invalid

\* The results of a call: nil, one of the errors, or a run-time panic.
OK == "ok"
Panic == "panic"
ErrInvalidSource == "source does not contain aerospike record"
ErrInvalidSourceType == "source must be a struct or a pointer to a struct"

\* F(x): the value of x is computed once and named, as a local variable of
\* the code is.
Let(x, F(_)) == CHOOSE y \in {F(v) : v \in {x}} : TRUE

----------------------------------------------------------------------------
(* parseTag.  A tag string is a sequence of lexemes.                       *)

\* strings.Split(tagString, ","): the parts between the commas.
RECURSIVE SplitFrom(_, _, _)
SplitFrom(s, i, cur) ==
    IF i > Len(s) THEN <<cur>>
    ELSE IF s[i] = "," THEN <<cur>> \o SplitFrom(s, i + 1, << >>)
    ELSE SplitFrom(s, i + 1, Append(cur, s[i]))

Split(s) == SplitFrom(s, 1, << >>)

\* strings.TrimSpace(p): p without its leading and trailing spaces, as a string.
RECURSIVE TrimLeft(_)
TrimLeft(p) ==
    IF p # << >> /\ Head(p) = " " THEN TrimLeft(Tail(p)) ELSE p

RECURSIVE TrimRight(_)
TrimRight(p) ==
    IF p # << >> /\ p[Len(p)] = " " THEN TrimRight(SubSeq(p, 1, Len(p) - 1)) ELSE p

RECURSIVE Join(_)
Join(p) == IF p = << >> THEN "" ELSE Head(p) \o Join(Tail(p))

TrimSpace(p) == Join(TrimRight(TrimLeft(p)))

\* tag{}: the zero tag.
ZeroTag == [meta |-> FALSE, omit |-> FALSE, omitempty |-> FALSE, name |-> ""]

\* The loop of parseTag over parts[i..].
RECURSIVE parseParts(_, _, _)
parseParts(parts, i, parsed) ==
    IF i > Len(parts) THEN [err |-> OK, tag |-> parsed]
    ELSE LET part == TrimSpace(parts[i]) IN
         IF part = tagValueMeta
           THEN parseParts(parts, i + 1, [parsed EXCEPT !.meta = TRUE])
         ELSE IF part = tagValueOmitempty
           THEN parseParts(parts, i + 1, [parsed EXCEPT !.omitempty = TRUE])
         ELSE IF part = tagValueOmit
           THEN parseParts(parts, i + 1, [parsed EXCEPT !.omit = TRUE])
         ELSE IF parsed.name = ""
           THEN parseParts(parts, i + 1, [parsed EXCEPT !.name = part])
         ELSE [err |-> "invalid tag", tag |-> ZeroTag]

\* A faulty variant without the handling of the `meta` bin name.
parseTagWithoutMetaBin(tagString) ==
    Let(Split(tagString), LAMBDA parts : parseParts(parts, 1, ZeroTag))

\* parseTag: the error and the tag (the zero tag with an error).
parseTag(tagString) ==
    Let(Split(tagString), LAMBDA parts :
      Let(parseParts(parts, 1, ZeroTag), LAMBDA r :
        IF r.err # OK THEN r
        ELSE IF r.tag.meta /\ r.tag.name = ""
          THEN [err |-> OK,
                tag |-> [r.tag EXCEPT !.meta = FALSE, !.name = tagValueMeta]]
        ELSE r))

----------------------------------------------------------------------------
(* The Go types in play, by name.                                          *)

SignedKinds == {"int", "int8", "int16", "int32", "int64"}
UnsignedKinds == {"uint", "uint8", "uint16", "uint32", "uint64"}
IntegerKinds == SignedKinds \cup UnsignedKinds

\* The destination structs for the generation/expiration counters, one for
\* each integer kind setIntegerValue switches on.
CounterKind ==
    [CountersInt |-> "int", CountersInt8 |-> "int8", CountersInt16 |-> "int16",
     CountersInt32 |-> "int32", CountersInt64 |-> "int64",
     CountersUint |-> "uint", CountersUint8 |-> "uint8",
     CountersUint16 |-> "uint16", CountersUint32 |-> "uint32",
     CountersUint64 |-> "uint64"]

CounterTypes == DOMAIN CounterKind

StructTypes ==
    {"mapper.Key", "mapper.KeyValue", "mapper.Metadata", "mapper.Record",
     "testtypes.Key", "testtypes.Record", "testtypes.BatchRecord",
     "testtypes.BatchRead", "testtypes.NullValue",
     "testtypes.Item1", "testtypes.Item2", "testtypes.Item",
     "Plain", "Loose", "KeyOnly", "Nested", "Leaf", "Keyed"} \cup CounterTypes

\* reflect.Type.Kind().
Kind(t) ==
    CASE t \in IntegerKinds \cup {"string", "bool", "invalid"} -> t
      [] t \in StructTypes -> "struct"
      [] t \in {"*int", "*testtypes.Item2", "*testtypes.Key", "*testtypes.Record",
                "*Leaf"} -> "ptr"
      [] t \in {"any", "testtypes.Value", "error"} -> "interface"
      [] t = "[20]byte" -> "array"
      [] t \in {"[]byte", "[]int", "[]string", "[]any"} -> "slice"
      [] t \in {"map[string]int", "map[string]any", "testtypes.BinMap",
                "map[int]int", "map[int8]int"} -> "map"
      [] t = "testtypes.StringValue" -> "string"
      [] t = "testtypes.LongValue" -> "int64"

\* reflect.Type.Elem() of a pointer, array, slice or map type.
Elem(t) ==
    CASE t = "*int" -> "int"
      [] t = "*testtypes.Item2" -> "testtypes.Item2"
      [] t = "*testtypes.Key" -> "testtypes.Key"
      [] t = "*testtypes.Record" -> "testtypes.Record"
      [] t = "*Leaf" -> "Leaf"
      [] t \in {"[20]byte", "[]byte"} -> "uint8"
      [] t = "[]int" -> "int"
      [] t = "[]string" -> "string"
      [] t = "[]any" -> "any"
      [] t \in {"map[string]int", "map[int]int", "map[int8]int"} -> "int"
      [] t \in {"map[string]any", "testtypes.BinMap"} -> "any"

\* reflect.Type.Key() of a map type.
Key(t) ==
    CASE t \in {"map[string]int", "map[string]any", "testtypes.BinMap"} -> "string"
      [] t = "map[int]int" -> "int"
      [] t = "map[int8]int" -> "int8"

\* The length of the digest array, [20]byte.
DigestLen == 20

\* The width of an integer kind; int and uint are 64 bits wide (a 64-bit build).
Bits(k) ==
    CASE k \in {"int8", "uint8"} -> 8
      [] k \in {"int16", "uint16"} -> 16
      [] k \in {"int32", "uint32"} -> 32
      [] k \in {"int", "uint", "int64", "uint64"} -> 64

\* A struct field: its name, its type and its `aero` tag (<< >>: no tag).
Fld(name, type, tag) == [name |-> name, type |-> type, tag |-> tag]

NoTag == << >>

\* reflect.Type.Field(i) for i in 1..NumField(): the fields of each struct type.
Fields(t) ==
    CASE t = "mapper.Key" ->
           <<Fld("Namespace", "string", <<"meta", ",", "namespace">>),
             Fld("SetName", "string", <<"meta", ",", "set_name">>),
             Fld("Digest", "[20]byte", <<"meta", ",", "digest">>)>>
      [] t = "mapper.KeyValue" ->
           <<Fld("UserKey", "any", <<"meta", ",", "user_key">>)>>
      [] t = "mapper.Metadata" ->
           <<Fld("Generation", "uint32", <<"meta", ",", "generation">>),
             Fld("Expiration", "uint32", <<"meta", ",", "expiration">>)>>
      [] t = "mapper.Record" ->
           <<Fld("Key", "mapper.Key", NoTag),
             Fld("KeyValue", "mapper.KeyValue", NoTag),
             Fld("Metadata", "mapper.Metadata", NoTag),
             Fld("Bins", "map[string]any", NoTag)>>
      [] t = "testtypes.Key" ->
           <<Fld("namespace", "string", NoTag),
             Fld("setName", "string", NoTag),
             Fld("digest", "[20]byte", NoTag),
             Fld("userKey", "testtypes.Value", NoTag)>>
      [] t = "testtypes.Record" ->
           <<Fld("Key", "*testtypes.Key", NoTag),
             Fld("Bins", "testtypes.BinMap", NoTag),
             Fld("Generation", "uint32", NoTag),
             Fld("Expiration", "uint32", NoTag)>>
      [] t = "testtypes.BatchRecord" ->
           <<Fld("Key", "*testtypes.Key", NoTag),
             Fld("Record", "*testtypes.Record", NoTag),
             Fld("ResultCode", "int", NoTag),
             Fld("Err", "error", NoTag),
             Fld("InDoubt", "bool", NoTag),
             Fld("HasWrite", "bool", NoTag)>>
      [] t = "testtypes.BatchRead" ->
           <<Fld("BatchRecord", "testtypes.BatchRecord", NoTag),
             Fld("BinNames", "[]string", NoTag),
             Fld("ReadAllBins", "bool", NoTag)>>
      [] t = "testtypes.NullValue" -> << >>
      [] t = "testtypes.Item1" ->
           <<Fld("Title", "string", <<"title">>)>>
      [] t = "testtypes.Item2" ->
           <<Fld("Name", "string", <<"name">>),
             Fld("Empty", "bool", <<"empty">>),
             Fld("Size", "uint64", <<"size">>)>>
      [] t = "testtypes.Item" ->
           <<Fld("Key", "mapper.Key", NoTag),
             Fld("KeyValue", "mapper.KeyValue", NoTag),
             Fld("Metadata", "mapper.Metadata", NoTag),
             Fld("Item1", "testtypes.Item1", NoTag),
             Fld("Item2", "*testtypes.Item2", NoTag),
             Fld("Label", "string", <<"label", ",", "omit">>),
             Fld("Length", "int", <<"length">>),
             Fld("Offset", "*int", <<"offset", ",", " ", "omitempty">>),
             Fld("Description", "string", <<"description", " ", ",", "omitempty">>),
             Fld("IntList", "[]int", <<"list">>),
             Fld("Dict", "map[string]int", <<"dict", ",", "omitempty">>)>>
      \* A struct of primitive bin fields, with one sub-struct embedded by value
      \* and one behind a pointer.
      [] t = "Plain" ->
           <<Fld("Item1", "testtypes.Item1", NoTag),
             Fld("Item2", "*testtypes.Item2", NoTag),
             Fld("S", "string", <<"s">>),
             Fld("B", "bool", <<"b", ",", "omitempty">>),
             Fld("I8", "int8", <<"i8">>),
             Fld("U16", "uint16", <<"u16", " ", ",", " ", "omitempty">>),
             Fld("U64", "uint64", <<"u64">>)>>
      \* Bin fields whose tag names no bin, and the bin the lone `meta` names.
      [] t = "Loose" ->
           <<Fld("N", "int", <<",", "omitempty">>),
             Fld("F", "bool", <<"omitempty">>),
             Fld("M", "string", <<"meta">>),
             Fld("K", "int64", <<"k">>)>>
      \* A caller's struct that holds a record key and nothing else of a record.
      [] t = "KeyOnly" ->
           <<Fld("Key", "*testtypes.Key", NoTag)>>
      \* Named fields of struct type that carry a tag: a bin name with a flag,
      \* two names, and a bin name on a pointer to a struct.
      [] t = "Nested" ->
           <<Fld("Inner", "testtypes.Item1", <<"inner", ",", "omit">>),
             Fld("Bad", "testtypes.Item2", <<"a", ",", "b">>),
             Fld("Opt", "*Leaf", <<"opt">>)>>
      [] t = "Leaf" ->
           <<Fld("V", "int", <<"v", ",", "omitempty">>)>>
      \* A map field whose key type is narrower than the keys of its bin.
      [] t = "Keyed" ->
           <<Fld("ByID", "map[int8]int", <<"byid">>)>>
      [] t \in CounterTypes ->
           <<Fld("Generation", CounterKind[t], <<"meta", ",", "generation">>),
             Fld("Expiration", CounterKind[t], <<"meta", ",", " ", "expiration">>)>>

NumField(t) == Len(Fields(t))

\* The methods reflect finds by name on an addressable value of type t.
Methods(t) ==
    IF t = "testtypes.Key"
      THEN {"Namespace", "SetName", "Value", "SetValue", "Digest", "Equals",
            "String", "SetDigest", "PartitionId"}
    ELSE IF t \in {"testtypes.StringValue", "testtypes.LongValue",
                   "testtypes.NullValue", "testtypes.Value"}
      THEN {"GetObject", "String"}
    ELSE {}

----------------------------------------------------------------------------
(* Values.                                                                 *)

Val(t, v) == [t |-> t, v |-> v]

EmptyMap == [k \in {} |-> Invalid]

\* reflect.Zero(t).
RECURSIVE Zero(_)
Zero(t) ==
    CASE Kind(t) = "string" -> Val(t, "")
      [] Kind(t) = "bool" -> Val(t, FALSE)
      [] Kind(t) \in IntegerKinds -> Val(t, 0)
      [] Kind(t) \in {"ptr", "interface", "slice"} -> Val(t, << >>)
      [] Kind(t) = "map" -> Val(t, EmptyMap)
      [] Kind(t) = "array" -> Val(t, [i \in 1..DigestLen |-> 0])
      [] Kind(t) = "struct" ->
           Val(t, [i \in 1..NumField(t) |-> Zero(Fields(t)[i].type)])

IsNil(x) == x.v = << >>

\* A non-nil pointer of type t to x; an interface of type t holding x.
PtrTo(t, x) == Val(t, <<x>>)
Box(t, x) == Val(t, <<x>>)

\* reflect.Value.Elem() of a pointer or an interface.
ElemOf(x) == IF IsNil(x) THEN Invalid ELSE x.v[1]

\* The index of the field called name, 0 when there is none.
FieldIndex(t, name) ==
    LET S == {i \in 1..NumField(t) : Fields(t)[i].name = name}
    IN  IF S = {} THEN 0 ELSE CHOOSE i \in S : TRUE

----------------------------------------------------------------------------
(* Reflection helpers (reflect_utils.go).                                  *)

\* The result of an operation that returns (value, error).
Ret(err, val) == [err |-> err, val |-> val]

\* A faulty variant that yields a new zero value behind a nil pointer.
fieldValueDerefAllocating(value, i) ==
    LET fieldValue == value.v[i] IN
    IF Kind(fieldValue.t) # "ptr" THEN fieldValue
    ELSE IF IsNil(fieldValue) THEN Zero(Elem(fieldValue.t))
    ELSE ElemOf(fieldValue)

\* fieldValueDeref: field i of the struct, dereferenced if it is a pointer
\* (the Elem() of a nil pointer is the invalid value).
fieldValueDeref(value, i) ==
    LET fieldValue == value.v[i] IN
    IF Kind(fieldValue.t) = "ptr" THEN ElemOf(fieldValue) ELSE fieldValue

\* Field i of the struct with x stored where fieldValueDeref reads: in the
\* field, or in what the field points to.
StoreDeref(value, i, x) ==
    IF Kind(value.v[i].t) = "ptr"
      THEN [value EXCEPT !.v[i] = PtrTo(value.v[i].t, x)]
      ELSE [value EXCEPT !.v[i] = x]

\* reflect.Value.CanSet() of a field reached from the destination pointer:
\* false only for the invalid value.
CanSet(fieldValue) == fieldValue # Invalid

\* Whether reflect.Value.Set accepts a value of type t for a location of
\* type loc (anything else panics).
Assignable(t, loc) == t = loc \/ Kind(loc) = "interface"

\* The location's new content after Set(x).
SetValue(loc, x) ==
    IF Kind(loc.t) = "interface"
      THEN IF Kind(x.t) = "interface" THEN Val(loc.t, x.v) ELSE Box(loc.t, x)
      ELSE x

\* Value.Interface(): the value as an `any`.
ToAny(x) == IF Kind(x.t) = "interface" THEN Val("any", x.v) ELSE Box("any", x)

\* getField: the field called fieldName of the struct, or an error.  The
\* records it is called on declare the field themselves.
getField(value, fieldName) ==
    LET i == FieldIndex(value.t, fieldName) IN
    IF i # 0 THEN Ret(OK, value.v[i])
    ELSE Ret("field '" \o fieldName \o "' not found on type " \o value.t
               \o " (or pointer to it)", Invalid)

\* getMethod: whether the (addressable) value has the method.
getMethod(value, methodName) ==
    IF methodName \in Methods(value.t) THEN OK
    ELSE "method '" \o methodName \o "' not found on type " \o value.t
           \o " (or pointer to it)"

\* structValue: the struct behind value.  A reflect.Value (inner) is returned
\* as it is; anything else must be a struct or a pointer to one.
structValue(value, inner) ==
    IF inner THEN Ret(OK, value)
    ELSE LET sv == IF Kind(value.t) = "ptr" THEN ElemOf(value) ELSE value IN
         IF Kind(sv.t) # "struct" THEN Ret(ErrInvalidSourceType, Invalid)
         ELSE Ret(OK, sv)

\* isEmptyValue: whether v is empty (v is a field read by fieldValueDeref).
isEmptyValue(v) ==
    LET k == Kind(v.t) IN
    CASE k \in {"array", "slice"} -> Len(v.v) = 0
      [] k = "map" -> DOMAIN v.v = {}
      [] k = "string" -> v.v = ""
      [] k = "bool" -> ~v.v
      [] k \in IntegerKinds -> v.v = 0
      [] k \in {"interface", "ptr"} -> IsNil(v)
      [] k = "struct" -> FALSE   \* no time.Time (timeType) value is in play
      [] k = "invalid" -> TRUE

\* 2^n for the widths below 32.
RECURSIVE Pow2(_)
Pow2(n) == IF n = 0 THEN 1 ELSE 2 * Pow2(n - 1)

\* reflect.Value.Convert between integer kinds: n wrapped to the width of
\* kind k.  The integers of the model lie below 2^31 in magnitude, so a width
\* of 32 bits or more keeps them.
ConvertInt(n, k) ==
    IF Bits(k) >= 32 THEN n
    ELSE IF k \in SignedKinds
      THEN ((n + Pow2(Bits(k) - 1)) % Pow2(Bits(k))) - Pow2(Bits(k) - 1)
    ELSE n % Pow2(Bits(k))

\* The decimal numerals among the strings in play: strconv.ParseInt(s, 10, 64)
\* and strconv.FormatInt(n, 10) on them.
Numerals ==
    {<<"0", 0>>, <<"3", 3>>, <<"7", 7>>, <<"10", 10>>, <<"-1", 0 - 1>>,
     <<"259", 259>>, <<"300", 300>>}

ParseInt(s) ==
    IF \E p \in Numerals : p[1] = s
      THEN Ret(OK, (CHOOSE p \in Numerals : p[1] = s)[2])
      ELSE Ret("strconv.ParseInt: parsing: invalid syntax", 0)

FormatInt(n) == (CHOOSE p \in Numerals : p[2] = n)[1]

\* strconv.ParseBool and strconv.FormatBool.
ParseBool(s) ==
    IF s \in {"1", "t", "T", "TRUE", "true", "True"} THEN Ret(OK, TRUE)
    ELSE IF s \in {"0", "f", "F", "FALSE", "false", "False"} THEN Ret(OK, FALSE)
    ELSE Ret("strconv.ParseBool: parsing: invalid syntax", FALSE)

FormatBool(b) == IF b THEN "true" ELSE "false"

\* The orders in which the keys of a map are handed out: Go leaves the order
\* unspecified, and the maps in play have at most two keys.
Orders == {"forward", "backward"}

\* The elements of a set in a sequence.
RECURSIVE Enumerate(_)
Enumerate(set) ==
    IF set = {} THEN << >>
    ELSE LET x == CHOOSE y \in set : TRUE IN <<x>> \o Enumerate(set \ {x})

\* reflect.Value.MapKeys(): the keys of the map in the order of this call.
MapKeys(sourceValue) ==
    LET keys == Enumerate(DOMAIN sourceValue.v) IN
    IF keyOrder = "forward" THEN keys
    ELSE [i \in 1..Len(keys) |-> keys[Len(keys) + 1 - i]]

\* convertElementType: source converted to targetType.  No float and no
\* time.Time value is in play, so those branches are left out.
RECURSIVE convertElementType(_, _)
RECURSIVE copyStruct(_, _)
RECURSIVE copyStructFrom(_, _, _)
RECURSIVE convertSlice(_, _, _, _)
RECURSIVE convertMap(_, _, _, _)

convertElementType(source, targetType) ==
    LET unboxed == IF Kind(source.t) = "interface" THEN ElemOf(source) ELSE source
    IN
    IF unboxed = Invalid THEN Ret(OK, Zero(targetType))
    ELSE IF Kind(unboxed.t) = "ptr" /\ IsNil(unboxed) THEN Ret(OK, Zero(targetType))
    ELSE
      LET sourceValue == IF Kind(unboxed.t) = "ptr" THEN ElemOf(unboxed) ELSE unboxed
          sourceType == sourceValue.t
          sk == Kind(sourceType)
          tk == Kind(targetType)
      IN
      IF sourceType = targetType THEN Ret(OK, sourceValue)
      ELSE
        CASE tk = "string" ->
               IF sk = "string" THEN Ret(OK, sourceValue)
               ELSE IF sk \in SignedKinds
                 THEN Ret(OK, Val("string", FormatInt(sourceValue.v)))
               ELSE IF sk = "bool"
                 THEN Ret(OK, Val("string", FormatBool(sourceValue.v)))
               ELSE Ret("cannot convert " \o sourceType \o " to string", Invalid)
          [] tk \in SignedKinds ->
               IF sk \in SignedKinds
                 THEN Ret(OK, Val(targetType, ConvertInt(sourceValue.v, tk)))
               ELSE IF sk = "string"
                 THEN LET i == ParseInt(sourceValue.v) IN
                      IF i.err # OK
                        THEN Ret("cannot convert string '" \o sourceValue.v
                                   \o "' to int: " \o i.err, Invalid)
                        ELSE Ret(OK, Val(targetType, ConvertInt(i.val, tk)))
               ELSE Ret("cannot convert " \o sourceType \o " to int", Invalid)
          [] tk = "bool" ->
               IF sk = "bool" THEN Ret(OK, sourceValue)
               ELSE IF sk = "string"
                 THEN LET b == ParseBool(sourceValue.v) IN
                      IF b.err # OK
                        THEN Ret("cannot convert string '" \o sourceValue.v
                                   \o "' to bool: " \o b.err, Invalid)
                        ELSE Ret(OK, Val("bool", b.val))
               ELSE IF sk \in SignedKinds
                 THEN Ret(OK, Val("bool", sourceValue.v # 0))
               ELSE Ret("cannot convert " \o sourceType \o " to bool", Invalid)
          [] tk = "slice" ->
               IF sk # "slice"
                 THEN Ret("cannot convert " \o sourceType \o " to slice", Invalid)
                 ELSE convertSlice(sourceValue, targetType, 1, << >>)
          [] tk = "map" ->
               IF sk # "map"
                 THEN Ret("cannot convert " \o sourceType \o " to map", Invalid)
                 ELSE convertMap(sourceValue, targetType, MapKeys(sourceValue), EmptyMap)
          [] tk = "struct" ->
               Let(copyStruct(sourceValue, targetType), LAMBDA nestedValue :
                 IF nestedValue.err # OK
                   THEN Ret("error mapping nested struct: " \o nestedValue.err, Invalid)
                   ELSE nestedValue)
          [] tk = "ptr" ->
               Let(convertElementType(source, Elem(targetType)), LAMBDA c :
                 IF c.err # OK THEN c ELSE Ret(OK, PtrTo(targetType, c.val)))
          [] OTHER -> Ret("unsupported target type: " \o tk, Invalid)

\* The loop over the source slice from index i; newSlice holds the elements
\* converted so far.
convertSlice(sourceValue, targetType, i, newSlice) ==
    IF i > Len(sourceValue.v) THEN Ret(OK, Val(targetType, newSlice))
    ELSE Let(convertElementType(sourceValue.v[i], Elem(targetType)), LAMBDA c :
           IF c.err # OK
             THEN Ret("error converting slice element at index " \o ToString(i - 1)
                        \o ": " \o c.err, Invalid)
             ELSE Let(Append(newSlice, c.val), LAMBDA n :
                    convertSlice(sourceValue, targetType, i + 1, n)))

\* The loop over the keys of the source map still to visit, in the order of
\* MapKeys; newMap holds the entries set so far, and SetMapIndex replaces the
\* entry of a key that is already there.
convertMap(sourceValue, targetType, keys, newMap) ==
    IF keys = << >> THEN Ret(OK, Val(targetType, newMap))
    ELSE Let(convertElementType(Val(Key(sourceValue.t), Head(keys)), Key(targetType)),
             LAMBDA convertedKey :
           IF convertedKey.err # OK
             THEN Ret("error converting map key: " \o convertedKey.err, Invalid)
             ELSE Let(convertElementType(sourceValue.v[Head(keys)], Elem(targetType)),
                      LAMBDA convertedValue :
                    IF convertedValue.err # OK
                      THEN Ret("error converting map value: " \o convertedValue.err,
                               Invalid)
                      ELSE Let((convertedKey.val.v :> convertedValue.val) @@ newMap,
                               LAMBDA n :
                             convertMap(sourceValue, targetType, Tail(keys), n))))

\* copyStruct: a new struct of targetType with the fields of the source
\* struct copied to the target fields that go by the source field's tag name
\* (or by its own name).  The fields of the structs copied are exported.
copyStruct(sourceValue, targetType) ==
    IF Kind(sourceValue.t) # "struct" \/ Kind(targetType) # "struct"
      THEN Ret("source and target must be structs", Invalid)
      ELSE copyStructFrom(sourceValue, Zero(targetType), 1)

\* The loop over the source fields from field i.
copyStructFrom(sourceValue, targetValue, i) ==
    IF i > NumField(sourceValue.t) THEN Ret(OK, targetValue)
    ELSE
      LET sourceField == Fields(sourceValue.t)[i]
          parsed == parseTag(sourceField.tag)
          name == IF parsed.tag.name = "" THEN sourceField.name ELSE parsed.tag.name
          j == FieldIndex(targetValue.t, name)
      IN
      IF parsed.err # OK THEN Ret(parsed.err, Invalid)
      ELSE IF j = 0 THEN copyStructFrom(sourceValue, targetValue, i + 1)
      ELSE Let(convertElementType(ToAny(sourceValue.v[i]), Fields(targetValue.t)[j].type),
               LAMBDA convertedValue :
             IF convertedValue.err # OK
               THEN Ret("error converting field " \o name \o ": " \o convertedValue.err,
                        Invalid)
               ELSE Let([targetValue EXCEPT !.v[j] = convertedValue.val], LAMBDA n :
                      copyStructFrom(sourceValue, n, i + 1)))

----------------------------------------------------------------------------
(* Encode (mapper.go).                                                     *)

\* Where encode stores each metadata tag: a field of a struct field of the
\* record.
MetaSlot ==
    [generation |-> <<"Metadata", "Generation">>,
     expiration |-> <<"Metadata", "Expiration">>,
     namespace |-> <<"Key", "Namespace">>,
     set_name |-> <<"Key", "SetName">>,
     digest |-> <<"Key", "Digest">>,
     user_key |-> <<"KeyValue", "UserKey">>]

MetaNames == DOMAIN MetaSlot

\* reflect.ValueOf(&record.<outer>).Elem().FieldByName(<inner>)
RecordField(record, slot) ==
    LET o == FieldIndex(record.t, slot[1])
        i == FieldIndex(record.v[o].t, slot[2])
    IN  record.v[o].v[i]

\* The record with x stored in that field.
WithRecordField(record, slot, x) ==
    LET o == FieldIndex(record.t, slot[1])
        i == FieldIndex(record.v[o].t, slot[2])
    IN  [record EXCEPT !.v[o].v[i] = x]

BinsIndex == FieldIndex("mapper.Record", "Bins")

\* A faulty assignment that stores nothing.
WithBinDropped(record, binName, x) == record

\* record.Bins[binName] = x
WithBin(record, binName, x) ==
    [record EXCEPT !.v[BinsIndex].v = (binName :> x) @@ @]

\* &Record{Bins: make(map[string]any)}
NewRecord == Zero("mapper.Record")

\* The result of a step of encode: the error, the record (or the record
\* field) and the source struct (or the source field) as the step leaves them.
Out(err, val, src) == [err |-> err, val |-> val, src |-> src]

\* A faulty setMetadata that assigns in the other direction.
setMetadataReversed(field, recordField, tagName) ==
    IF isEmptyValue(field) THEN Out(OK, recordField, field)
    ELSE IF field.t # recordField.t
      THEN Out("type mismatch", recordField, field)
    ELSE Out(OK, recordField, recordField)

\* A faulty setMetadata that compares the types of an empty field too.
setMetadataStrict(field, recordField, tagName) ==
    IF field.t # recordField.t
      THEN Out("type mismatch for tag '" \o tagName \o "': source " \o field.t
                 \o ", record " \o recordField.t, recordField, field)
    ELSE Out(OK, field, field)

\* setMetadata: the new content of recordField, or an error.  The record
\* fields are fields of a Record reached through a pointer, so CanSet holds.
setMetadata(field, recordField, tagName) ==
    IF isEmptyValue(field) THEN Out(OK, recordField, field)
    ELSE IF field.t # recordField.t
      THEN Out("type mismatch for tag '" \o tagName \o "': source " \o field.t
                 \o ", record " \o recordField.t, recordField, field)
    ELSE Out(OK, field, field)

\* Faulty variants: one that ignores the omit flag, one that leaves out every
\* empty field.
skipFieldIgnoringOmit(tag, empty) == tag.omitempty /\ empty
skipFieldWhenEmpty(tag, empty) == tag.omit \/ empty

\* Whether encode leaves a bin field out: the omit and omitempty flags.
skipField(tag, empty) == tag.omit \/ (tag.omitempty /\ empty)

\* The body of encode's loop for a field that is no struct: the record with
\* the field encoded, or an error.
encodeField(fieldValue, field, record) ==
    IF field.tag = NoTag THEN Out(OK, record, fieldValue)
    ELSE Let(parseTag(field.tag), LAMBDA p :
      IF p.err # OK THEN Out(p.err, record, fieldValue)
      ELSE IF p.tag.meta THEN
        IF p.tag.name \in MetaNames THEN
          Let(setMetadata(fieldValue, RecordField(record, MetaSlot[p.tag.name]),
                          p.tag.name),
              LAMBDA m :
                IF m.err # OK THEN Out(m.err, record, m.src)
                ELSE Out(OK, WithRecordField(record, MetaSlot[p.tag.name], m.val),
                         m.src))
        ELSE Out(OK, record, fieldValue)
      ELSE
        Let(isEmptyValue(fieldValue), LAMBDA empty :
          IF skipField(p.tag, empty) THEN Out(OK, record, fieldValue)
          ELSE IF p.tag.name = "" THEN Out(OK, record, fieldValue)
          ELSE IF empty
            THEN Out(OK, WithBin(record, p.tag.name, ToAny(Zero(field.type))),
                     fieldValue)
          ELSE Out(OK, WithBin(record, p.tag.name, ToAny(fieldValue)), fieldValue)))

\* A faulty variant that looks at the tag of a field before it looks at the
\* field's kind, and so treats a tagged field of struct kind as a bin.
RECURSIVE encodeFromTagFirst(_, _, _)
encodeFromTagFirst(sourceValue, i, record) ==
    IF i > NumField(sourceValue.t) THEN Out(OK, record, sourceValue)
    ELSE
      Let(fieldValueDeref(sourceValue, i), LAMBDA fieldValue :
        Let(IF Kind(fieldValue.t) = "struct" /\ Fields(sourceValue.t)[i].tag = NoTag
              THEN encodeFromTagFirst(fieldValue, 1, record)
              ELSE encodeField(fieldValue, Fields(sourceValue.t)[i], record),
            LAMBDA r :
              Let(IF r.src = fieldValue THEN sourceValue
                  ELSE StoreDeref(sourceValue, i, r.src),
                  LAMBDA v :
                    IF r.err # OK THEN Out(r.err, r.val, v)
                    ELSE encodeFromTagFirst(v, i + 1, r.val))))

\* encode: the loop over the fields of sourceValue from field i on; val is the
\* record as filled so far (on an error, as it was when the error arose) and
\* src is sourceValue as the loop leaves it.
RECURSIVE encodeFrom(_, _, _)
encodeFrom(sourceValue, i, record) ==
    IF i > NumField(sourceValue.t) THEN Out(OK, record, sourceValue)
    ELSE
      Let(fieldValueDeref(sourceValue, i), LAMBDA fieldValue :
        Let(IF Kind(fieldValue.t) = "struct"
              THEN encodeFrom(fieldValue, 1, record)
              ELSE encodeField(fieldValue, Fields(sourceValue.t)[i], record),
            LAMBDA r :
              Let(IF r.src = fieldValue THEN sourceValue
                  ELSE StoreDeref(sourceValue, i, r.src),
                  LAMBDA v :
                    IF r.err # OK THEN Out(r.err, r.val, v)
                    ELSE encodeFrom(v, i + 1, r.val))))

encode(v, inner, record) ==
    Let(structValue(v, inner), LAMBDA s :
      IF s.err # OK THEN Out(s.err, record, v) ELSE encodeFrom(s.val, 1, record))

\* Encode: (record, nil) or (nil, err); val is the Record the returned
\* pointer points to, or Invalid for the nil pointer, and src is the struct
\* the caller passed (by pointer) as the call leaves it.
Encode(v) ==
    Let(encode(v, FALSE, NewRecord), LAMBDA r :
      IF r.err # OK THEN Out(r.err, Invalid, r.src) ELSE r)

----------------------------------------------------------------------------
(* Decode (mapper.go).  Each operator takes the destination struct and     *)
(* yields the error and the destination as the call leaves it: a failing   *)
(* call keeps what it has written before the failure.                      *)

\* The loop the three decoders share: over the fields of targetValue from
\* field i on, descending into a field that is a struct and handing any
\* other field to Step(fieldValue, field), which yields the field's new
\* content or an error.
RECURSIVE decodeFields(_, _, _)
decodeFields(Step(_, _), targetValue, i) ==
    IF i > NumField(targetValue.t) THEN Ret(OK, targetValue)
    ELSE
      Let(fieldValueDeref(targetValue, i), LAMBDA fieldValue :
        Let(IF Kind(fieldValue.t) = "struct"
              THEN decodeFields(Step, fieldValue, 1)
              ELSE Step(fieldValue, Fields(targetValue.t)[i]),
            LAMBDA r :
              Let(IF r.val = fieldValue THEN targetValue
                  ELSE StoreDeref(targetValue, i, r.val),
                  LAMBDA t :
                    IF r.err # OK THEN Ret(r.err, t)
                    ELSE decodeFields(Step, t, i + 1))))

\* A faulty lookup that yields a nil value for an absent key.
MapIndexOrNil(recordValue, key) ==
    IF key \in DOMAIN recordValue.v THEN recordValue.v[key] ELSE Zero("any")

\* reflect.Value.MapIndex: the value under the key, or the zero Value.
MapIndex(recordValue, key) ==
    IF key \in DOMAIN recordValue.v THEN recordValue.v[key] ELSE reflectZeroValue

\* A faulty variant that also passes over the fields with the omit flag.
skipBinOrOmitted(tag) == tag.name = "" \/ tag.omit

\* Whether decodeBins passes over an annotated field: only when its tag
\* names no bin (the meta, omit and omitempty flags are not looked at).
skipBin(tag) == tag.name = ""

\* The body of decodeBins' loop for a field that is no struct.
decodeBinsField(recordValue, fieldValue, field) ==
    IF field.tag = NoTag THEN Ret(OK, fieldValue)
    ELSE Let(parseTag(field.tag), LAMBDA p :
      IF p.err # OK THEN Ret(p.err, fieldValue)
      ELSE IF skipBin(p.tag) THEN Ret(OK, fieldValue)
      ELSE IF MapIndex(recordValue, p.tag.name) = reflectZeroValue
        THEN Ret(OK, fieldValue)
      ELSE IF ~CanSet(fieldValue) THEN Ret(OK, fieldValue)
      ELSE
        Let(convertElementType(MapIndex(recordValue, p.tag.name), field.type),
            LAMBDA c :
              IF c.err # OK
                THEN Ret("error converting value for field " \o field.name \o ": "
                           \o c.err, fieldValue)
              ELSE IF ~Assignable(c.val.t, fieldValue.t) THEN Ret(Panic, fieldValue)
              ELSE Ret(OK, SetValue(fieldValue, c.val))))

\* A faulty variant that undoes its assignments when a field fails.
decodeBinsWithRollback(recordValue, targetValue) ==
    IF Kind(recordValue.t) # "map" THEN Ret(OK, targetValue)
    ELSE Let(decodeFields(LAMBDA fieldValue, field :
                            decodeBinsField(recordValue, fieldValue, field),
                          targetValue, 1),
             LAMBDA r : IF r.err # OK THEN Ret(r.err, targetValue) ELSE r)

decodeBins(recordValue, targetValue) ==
    IF Kind(recordValue.t) # "map" THEN Ret(OK, targetValue)
    ELSE decodeFields(LAMBDA fieldValue, field :
                        decodeBinsField(recordValue, fieldValue, field),
                      targetValue, 1)

\* m.Call(nil) for the methods of the record key decodeKey calls.
CallMethod(recv, methodName) ==
    CASE methodName = "Namespace" -> recv.v[FieldIndex(recv.t, "namespace")]
      [] methodName = "SetName" -> recv.v[FieldIndex(recv.t, "setName")]
      [] methodName = "Value" -> recv.v[FieldIndex(recv.t, "userKey")]
      [] methodName = "Digest" ->
           Val("[]byte", recv.v[FieldIndex(recv.t, "digest")].v)

\* GetObject() of the value a non-nil Value interface holds.
GetObject(value) ==
    CASE value.t = "testtypes.StringValue" -> Box("any", Val("string", value.v))
      [] value.t = "testtypes.LongValue" -> Box("any", Val("int64", value.v))
      [] value.t = "testtypes.NullValue" -> Zero("any")

\* One metadata field of decodeKey filled by the method's result when the
\* types agree.
SetFromResult(methodName, result, fieldValue) ==
    IF result.t = fieldValue.t THEN Ret(OK, result)
    ELSE Ret("method " \o methodName \o " returned wrong type. Expected "
               \o fieldValue.t \o ", got " \o result.t, fieldValue)

\* The switch on tag.name in decodeKey: the new content of fieldValue, or an
\* error, or a panic.  fieldValue.Type() panics on the invalid value and
\* MethodByName panics on a nil interface value.
decodeKeyCase(recordValue, fieldValue, name) ==
    LET methodName ==
          CASE name = metaTagNamespace -> "Namespace"
            [] name = metaTagSetName -> "SetName"
            [] name = metaTagUserKey -> "Value"
            [] name = metaTagDigest -> "Digest"
        m == getMethod(recordValue, methodName)
        result == CallMethod(recordValue, methodName)
    IN
    IF ~CanSet(fieldValue) THEN Ret(Panic, fieldValue)
    ELSE IF m # OK THEN Ret(m, fieldValue)
    ELSE IF name \in {metaTagNamespace, metaTagSetName}
      THEN SetFromResult(methodName, result, fieldValue)
    ELSE IF name = metaTagUserKey THEN
      IF IsNil(result) THEN Ret(Panic, fieldValue)
      ELSE IF "GetObject" \notin Methods(ElemOf(result).t)
        THEN Ret("method GetObject not found on type " \o result.t, fieldValue)
      ELSE SetFromResult("Value", GetObject(ElemOf(result)), fieldValue)
    ELSE
      IF Kind(fieldValue.t) = "array" /\ Elem(fieldValue.t) = "uint8" THEN
        IF Len(fieldValue.v) # Len(result.v)
          THEN Ret("method Digest returned []byte of the wrong length", fieldValue)
          ELSE Ret(OK, Val(fieldValue.t, result.v))
      ELSE IF fieldValue.t = "[]byte" THEN Ret(OK, result)
      ELSE Ret("method Digest returned wrong type. Expected []byte or [N]byte, got "
                 \o fieldValue.t, fieldValue)

\* The body of decodeKey's loop for a field that is no struct.
decodeKeyField(recordValue, fieldValue, field) ==
    IF field.tag = NoTag THEN Ret(OK, fieldValue)
    ELSE Let(parseTag(field.tag), LAMBDA p :
      IF p.err # OK THEN Ret(p.err, fieldValue)
      ELSE IF ~p.tag.meta THEN Ret(OK, fieldValue)
      ELSE IF p.tag.name \in {metaTagNamespace, metaTagSetName, metaTagUserKey,
                              metaTagDigest}
        THEN decodeKeyCase(recordValue, fieldValue, p.tag.name)
      ELSE Ret(OK, fieldValue))

decodeKey(recordValue, targetValue) ==
    decodeFields(LAMBDA fieldValue, field :
                   decodeKeyField(recordValue, fieldValue, field),
                 targetValue, 1)

\* reflect.Value.OverflowInt / OverflowUint of x for a location of kind k.
\* The integers of the model lie below 2^31, so only a narrower kind overflows.
OverflowInt(k, x) ==
    Bits(k) < 32 /\ (x < 0 - Pow2(Bits(k) - 1) \/ x > Pow2(Bits(k) - 1) - 1)

OverflowUint(k, x) == Bits(k) < 32 /\ x > Pow2(Bits(k)) - 1

\* The text of setIntegerValue's overflow error for a destination of type t.
OverflowError(t) == "value overflows destination type '" \o t \o "'"

\* setIntegerValue: the new content of fieldValue, or an error, or a panic:
\* Value.Int() panics on a value of an unsigned kind and Value.Uint() on one
\* of a signed kind.
setIntegerValue(fieldValue, recordValue) ==
    LET fk == Kind(fieldValue.t)
        rk == Kind(recordValue.t)
    IN
    IF fk \in SignedKinds THEN
      IF rk \notin SignedKinds THEN Ret(Panic, fieldValue)
      ELSE IF OverflowInt(fk, recordValue.v)
        THEN Ret(OverflowError(fieldValue.t), fieldValue)
      ELSE Ret(OK, Val(fieldValue.t, ConvertInt(recordValue.v, fk)))
    ELSE IF fk \in UnsignedKinds THEN
      IF rk \notin UnsignedKinds THEN Ret(Panic, fieldValue)
      ELSE IF OverflowUint(fk, recordValue.v) THEN
        IF rk \notin SignedKinds THEN Ret(Panic, fieldValue)
        ELSE Ret(OverflowError(fieldValue.t), fieldValue)
      ELSE Ret(OK, Val(fieldValue.t, ConvertInt(recordValue.v, fk)))
    ELSE Ret("unsupported field type: " \o fieldValue.t, fieldValue)

\* The record field decodeRecord reads for each of its two tag names.
CounterField == [generation |-> "Generation", expiration |-> "Expiration"]

\* The body of decodeRecord's loop for a field that is no struct.
decodeRecordField(recordValue, fieldValue, field) ==
    IF field.tag = NoTag THEN Ret(OK, fieldValue)
    ELSE Let(parseTag(field.tag), LAMBDA p :
      IF p.err # OK THEN Ret(p.err, fieldValue)
      ELSE IF ~p.tag.meta THEN Ret(OK, fieldValue)
      ELSE IF p.tag.name \in DOMAIN CounterField THEN
        IF ~CanSet(fieldValue) THEN Ret("cannot set " \o p.tag.name, fieldValue)
        ELSE
          Let(getField(recordValue, CounterField[p.tag.name]), LAMBDA f :
            IF f.err # OK THEN Ret(f.err, fieldValue)
            ELSE
              Let(setIntegerValue(fieldValue, f.val), LAMBDA n :
                IF n.err = Panic \/ n.err = OK THEN n
                ELSE Ret(p.tag.name \o ": " \o n.err, fieldValue)))
      ELSE Ret(OK, fieldValue))

decodeRecord(recordValue, targetValue) ==
    decodeFields(LAMBDA fieldValue, field :
                   decodeRecordField(recordValue, fieldValue, field),
                 targetValue, 1)

\* Decode: the loop over the fields of recordValue from field i on.  inner
\* tells that the record argument is a reflect.Value (a recursive call);
\* isRecord is the flag of the same name.
RECURSIVE DecodeFrom(_, _, _, _, _)

\* A faulty variant that accepts every struct as a record.
decodeResultAlwaysNil(isRecord) == OK

\* The end of Decode: nil if a record component was found, or ErrInvalidSource.
decodeResult(isRecord) == IF isRecord THEN OK ELSE ErrInvalidSource

\* A faulty variant that leaves the metadata decode out.
decodeEmbeddedRecordOnly(fieldValue, targetValue) ==
    DecodeFrom(fieldValue, TRUE, targetValue, 1, FALSE)

\* The case of a field called Record: the metadata decode, then the decode
\* of the record itself.
decodeEmbeddedRecord(fieldValue, targetValue) ==
    Let(decodeRecord(fieldValue, targetValue), LAMBDA m :
      IF m.err # OK THEN m ELSE DecodeFrom(fieldValue, TRUE, m.val, 1, FALSE))

DecodeFrom(recordValue, inner, targetValue, i, isRecord) ==
    IF i > NumField(recordValue.t)
      THEN Ret(decodeResult(isRecord), targetValue)
    ELSE
      Let(fieldValueDeref(recordValue, i), LAMBDA fieldValue :
        LET fieldName == Fields(recordValue.t)[i].name
            k == Kind(fieldValue.t)
        IN
        IF k = "struct" /\ fieldName = "BatchRecord" THEN
          Let(DecodeFrom(fieldValue, TRUE, targetValue, 1, FALSE), LAMBDA r :
            IF r.err # OK THEN r
            ELSE DecodeFrom(recordValue, inner, r.val, i + 1, TRUE))
        ELSE IF k = "struct" /\ fieldName = "Record" THEN
          Let(decodeEmbeddedRecord(fieldValue, targetValue), LAMBDA r :
            IF r.err # OK THEN r
            ELSE DecodeFrom(recordValue, inner, r.val, i + 1, TRUE))
        ELSE IF k = "struct" /\ fieldName = "Key" THEN
          Let(decodeKey(fieldValue, targetValue), LAMBDA r :
            IF r.err # OK THEN r
            ELSE DecodeFrom(recordValue, inner, r.val, i + 1, isRecord))
        ELSE IF k = "map" /\ fieldName = "Bins" THEN
          Let(decodeBins(fieldValue, targetValue), LAMBDA r :
            IF r.err # OK THEN r
            ELSE DecodeFrom(recordValue, inner, r.val, i + 1, TRUE))
        ELSE IF ~inner /\ k = "uint32" /\ fieldName \in {"Generation", "Expiration"}
          THEN
          Let(decodeRecord(recordValue, targetValue), LAMBDA r :
            IF r.err # OK THEN r
            ELSE DecodeFrom(recordValue, inner, r.val, i + 1, isRecord))
        ELSE DecodeFrom(recordValue, inner, targetValue, i + 1, isRecord))

\* Decode(record, &v): the error and v as the call leaves it.
Decode(record, targetValue) ==
    Let(structValue(record, FALSE), LAMBDA s :
      IF s.err # OK THEN Ret(s.err, targetValue)
      ELSE DecodeFrom(s.val, FALSE, targetValue, 1, FALSE))

----------------------------------------------------------------------------
(* The inputs of the calls.                                                *)

\* The bounds of the model: the number of fields of an encoded struct that
\* differ from zero, and the number of bins of a decoded record.
MaxNonZero == 2
MaxBins == 3

AppTypes == {"testtypes.Item", "Plain", "Loose", "Nested", "Keyed"} \cup CounterTypes

S(x) == Val("string", x)
I(x) == Val("int", x)
B(x) == Val("bool", x)

\* The non-zero values a field of type t takes in an encoded struct.
Samples(t) ==
    CASE t = "string" -> {S("t1")}
      [] t = "bool" -> {B(TRUE)}
      [] t \in SignedKinds -> {Val(t, 10), Val(t, 0 - 1)}
      [] t \in UnsignedKinds -> {Val(t, 3)}
      [] t = "[20]byte" -> {Val(t, [i \in 1..DigestLen |-> 1])}
      [] t = "any" -> {Box(t, S("key1")), Box(t, Val("int64", 7))}
      [] t = "*int" -> {PtrTo(t, I(0)), PtrTo(t, I(5))}
      [] t = "[]int" -> {Val(t, <<I(3), I(7)>>)}
      [] t = "map[string]int" -> {Val(t, [k \in {"a"} |-> I(1)])}
      [] t = "map[int8]int" -> {Val(t, 3 :> I(1))}

\* The values of type t with at most n changes from the zero value, each with
\* the number of its changes.  Allocating a pointer to a struct is a change.
RECURSIVE Variants(_, _)
RECURSIVE VariantFields(_, _, _)
Variants(t, n) ==
    IF Kind(t) = "struct"
      THEN {[val |-> Val(t, f.val), cost |-> f.cost] : f \in VariantFields(t, 1, n)}
    ELSE IF Kind(t) = "ptr" /\ Kind(Elem(t)) = "struct"
      THEN {[val |-> Zero(t), cost |-> 0]}
           \cup (IF n = 0 THEN {}
                 ELSE {[val |-> PtrTo(t, x.val), cost |-> x.cost + 1] :
                         x \in Variants(Elem(t), n - 1)})
    ELSE {[val |-> Zero(t), cost |-> 0]}
         \cup (IF n = 0 THEN {} ELSE {[val |-> x, cost |-> 1] : x \in Samples(t)})

VariantFields(t, i, n) ==
    IF i > NumField(t) THEN {[val |-> << >>, cost |-> 0]}
    ELSE UNION {{[val |-> <<h.val>> \o r.val, cost |-> h.cost + r.cost] :
                   r \in VariantFields(t, i + 1, n - h.cost)} :
                 h \in Variants(Fields(t)[i].type, n)}

\* The structs of each type the caller encodes.
Sources == [t \in AppTypes |-> {x.val : x \in Variants(t, MaxNonZero)}]

\* A destination with every pointer allocated, and one with every field set.
RECURSIVE Alloc(_)
Alloc(t) ==
    CASE Kind(t) = "struct" -> Val(t, [i \in 1..NumField(t) |-> Alloc(Fields(t)[i].type)])
      [] Kind(t) = "ptr" -> PtrTo(t, Alloc(Elem(t)))
      [] OTHER -> Zero(t)

RECURSIVE Old(_)
Old(t) ==
    CASE Kind(t) = "struct" -> Val(t, [i \in 1..NumField(t) |-> Old(Fields(t)[i].type)])
      [] Kind(t) = "ptr" -> PtrTo(t, Old(Elem(t)))
      [] t = "string" -> S("old")
      [] t = "bool" -> B(TRUE)
      [] t \in IntegerKinds -> Val(t, 1)
      [] t = "[20]byte" -> Val(t, [i \in 1..DigestLen |-> 2])
      [] t = "any" -> Box(t, S("oldkey"))
      [] t = "[]int" -> Val(t, <<I(1)>>)
      [] t = "map[string]int" -> Val(t, [k \in {"o"} |-> I(1)])
      [] t = "map[int8]int" -> Val(t, 7 :> I(1))

\* The destinations a caller starts from.
Destinations(t) == {Zero(t), Alloc(t), Old(t)}

\* NewKey and &Key{}: a key with a user key of each Value type, and one whose
\* user key is nil.
NewKey(namespace, setName, digest, userKey) ==
    PtrTo("*testtypes.Key",
          Val("testtypes.Key",
              <<S(namespace), S(setName),
                Val("[20]byte", [i \in 1..DigestLen |-> digest]), userKey>>))

StringValue(x) == Box("testtypes.Value", Val("testtypes.StringValue", x))
LongValue(x) == Box("testtypes.Value", Val("testtypes.LongValue", x))
NullValue == Box("testtypes.Value", Val("testtypes.NullValue", << >>))

\* The key, generation and expiration of the records decoded.
Headers ==
    {<<Zero("*testtypes.Key"), 0, 0>>,
     <<Zero("*testtypes.Key"), 3, 200>>,
     <<NewKey("ns1", "set1", 1, StringValue("key1")), 3, 1000>>,
     <<NewKey("ns1", "", 3, LongValue(7)), 300, 70000>>,
     <<NewKey("ns1", "set1", 1, NullValue), 0, 70000>>,
     <<NewKey("ns1", "set1", 4, Zero("testtypes.Value")), 3, 1000>>}

Bin(name, value) == <<name, ToAny(value)>>

\* The bins of the records decoded into a destination of type t: values of
\* the field's own type, values of another type and nil, under the names of
\* the type's tags.
BinEntries(t) ==
    CASE t = "testtypes.Item" ->
           {Bin("title", S("t1")), Bin("label", S("l1")), Bin("label", I(10)),
            Bin("length", I(10)),
            Bin("length", S("abc")), Bin("offset", I(7)), Bin("offset", Zero("any")),
            Bin("size", Val("uint64", 3)),
            Bin("generation", Val("uint32", 9)), Bin("namespace", S("other")),
            Bin("list", Val("[]any", <<ToAny(I(3)), ToAny(S("7"))>>))}
      [] t = "Plain" ->
           {Bin("title", S("t1")), Bin("s", S("a")), Bin("s", I(10)),
            Bin("b", B(TRUE)), Bin("b", S("T")), Bin("i8", Val("int8", 10)),
            Bin("i8", I(300)), Bin("i8", S("abc")), Bin("i8", Zero("any")),
            Bin("u16", Val("uint16", 3)), Bin("u64", I(3)),
            Bin("name", S("n1")), Bin("size", I(3))}
      [] t = "Loose" ->
           {Bin("", I(5)), Bin("omitempty", B(TRUE)), Bin("meta", S("m1")),
            Bin("k", Val("int64", 7)), Bin("k", S("7"))}
      [] t = "Nested" ->
           {Bin("title", S("t1")), Bin("inner", S("t1")), Bin("v", I(3)),
            Bin("opt", I(3)), Bin("a", S("n1"))}
      [] t = "Keyed" ->
           {Bin("byid", Val("map[int]int", (3 :> I(10)) @@ (7 :> I(300)))),
            Bin("byid", Val("map[int]int", (3 :> I(10)) @@ (259 :> I(300)))),
            Bin("byid", Val("map[int8]int", 3 :> I(10)))}
      [] t \in CounterTypes ->
           {Bin("generation", Val(CounterKind[t], 9)), Bin("expiration", I(7))}

\* The bin maps of at most MaxBins of these entries, one entry for a name.
BinMaps(t) ==
    {Val("testtypes.BinMap", [n \in {e[1] : e \in es} |-> (CHOOSE e \in es : e[1] = n)[2]]) :
       es \in {x \in SUBSET BinEntries(t) :
                 /\ Cardinality(x) <= MaxBins
                 /\ \A a, b \in x : a[1] = b[1] => a = b}}

\* The records decoded into a destination of each type, each behind a pointer.
Records ==
    [t \in AppTypes |->
       {PtrTo("*testtypes.Record",
              Val("testtypes.Record",
                  <<h[1], b, Val("uint32", h[2]), Val("uint32", h[3])>>)) :
          h \in Headers, b \in BinMaps(t)}]

\* A batch-read wrapper around the record, its own key unset.
BatchRead(record) ==
    Val("testtypes.BatchRead",
        <<Val("testtypes.BatchRecord",
              <<Zero("*testtypes.Key"), record, I(0), Zero("error"),
                B(FALSE), B(FALSE)>>),
          Zero("[]string"), B(FALSE)>>)

\* The batch-read wrapper of a key whose record was not found: the record
\* pointer is nil.
BatchReadNotFound(key) ==
    Val("testtypes.BatchRead",
        <<Val("testtypes.BatchRecord",
              <<key, Zero("*testtypes.Record"), I(2), Zero("error"),
                B(FALSE), B(FALSE)>>),
          Zero("[]string"), B(TRUE)>>)

\* The other values a caller hands to Decode as the source: values that are
\* no struct (an integer, a slice, nil, a nil pointer to a record), a struct
\* without any part of a record, a struct or a batch record that holds a key
\* only, a batch-read wrapper without a record, and a struct of the two
\* counters only.
OtherSources ==
    {I(1), Val("[]int", <<I(1), I(2), I(3)>>), Invalid, Zero("*testtypes.Record"),
     Zero("testtypes.Item1"), Val("testtypes.Item1", <<S("t1")>>)}
    \cup {Val("KeyOnly", <<h[1]>>) : h \in Headers}
    \cup {Val("testtypes.BatchRecord",
               <<h[1], Zero("*testtypes.Record"), I(0), Zero("error"),
                 B(FALSE), B(FALSE)>>) : h \in Headers}
    \cup {BatchReadNotFound(h[1]) : h \in Headers}
    \cup {Val("mapper.Metadata", <<Val("uint32", h[2]), Val("uint32", h[3])>>) :
            h \in Headers}

\* The tag strings parsed: at most MaxTokens tokens between commas, each a
\* flag, a name or nothing, with or without spaces around it.
MaxTokens == 3

TagTokens ==
    {<< >>, <<" ">>, <<"a">>, <<" ", "b", " ">>, <<"meta">>, <<"omit">>,
     <<" ", "omitempty">>}

RECURSIVE TagsOf(_)
TagsOf(n) ==
    IF n = 1 THEN TagTokens
    ELSE {s \o <<",">> \o t : s \in TagsOf(n - 1), t \in TagTokens}

TagStrings == UNION {TagsOf(n) : n \in 1..MaxTokens}

----------------------------------------------------------------------------
(* The calls.  Encode and Decode keep no state between calls, so a run is   *)
(* one use of the package: the caller encodes a struct and decodes the     *)
(* Record it got, or decodes a record, or decodes a batch wrapper, or hands *)
(* Decode a source that is no record.                                       *)

NoParse == [s |-> << >>, err |-> "none", tag |-> ZeroTag]
NoEnc == [s |-> Invalid, res |-> "none", rec |-> Invalid, after |-> Invalid]
NoCall == [shape |-> "none", arg |-> Invalid, r |-> Invalid, pre |-> Invalid,
           res |-> "none"]
NoRet == Ret("none", Invalid)
NoConv == [source |-> Invalid, targetType |-> "invalid", first |-> NoRet,
           second |-> NoRet]

Init ==
    /\ typ \in AppTypes
    /\ dst \in Destinations(typ)
    /\ enc = NoEnc
    /\ call = NoCall
    /\ tagCall = NoParse
    /\ conv = NoConv
    /\ keyOrder \in Orders

\* record, err := Encode(s)
EncodeStep ==
    /\ enc = NoEnc
    /\ call = NoCall
    /\ tagCall = NoParse
    /\ \E s \in Sources[typ] :
         \E r \in {Encode(s)} :
           enc' = [s |-> s, res |-> r.err, rec |-> r.val, after |-> r.src]
    /\ UNCHANGED <<typ, dst, call, tagCall, conv, keyOrder>>

\* err := Decode(source, &dst), source holding the record r (if any).
DecodeCall(shape, source, r) ==
    \E d \in {Decode(source, dst)} :
      /\ dst' = d.val
      /\ call' = [shape |-> shape, arg |-> source, r |-> r, pre |-> dst,
                  res |-> d.err]
      /\ UNCHANGED <<typ, enc, tagCall, conv, keyOrder>>

\* err := Decode(record, &dst) for the record Encode returned.
DecodeEncodedStep ==
    /\ enc.res = OK
    /\ call = NoCall
    /\ DecodeCall("encoded", enc.rec, Invalid)

\* err := Decode(r, &dst) for an Aerospike record r.
DecodeRecordStep ==
    /\ tagCall = NoParse
    /\ enc = NoEnc
    /\ call = NoCall
    /\ \E r \in Records[typ] : DecodeCall("record", r, r)

\* err := Decode(w, &dst) for a batch-read wrapper w around a record r.
DecodeBatchStep ==
    /\ tagCall = NoParse
    /\ enc = NoEnc
    /\ call = NoCall
    /\ \E r \in Records[typ] : DecodeCall("batch", BatchRead(r), r)

\* tag, err := parseTag(s), as encode and the decoders call it for a field
\* with the tag s.
ParseTagStep ==
    /\ enc = NoEnc
    /\ call = NoCall
    /\ tagCall = NoParse
    /\ \E s \in TagStrings :
         \E r \in {parseTag(s)} :
           tagCall' = [s |-> s, err |-> r.err, tag |-> r.tag]
    /\ UNCHANGED <<typ, dst, enc, call, conv, keyOrder>>

\* err := Decode(x, &dst) for a source x that is no record.
DecodeSourceStep ==
    /\ tagCall = NoParse
    /\ enc = NoEnc
    /\ call = NoCall
    /\ \E x \in OtherSources : DecodeCall("source", x, Invalid)

Next ==
    \/ EncodeStep
    \/ DecodeEncodedStep
    \/ DecodeRecordStep
    \/ DecodeBatchStep
    \/ DecodeSourceStep

Spec == Init /\ [][Next]_vars

----------------------------------------------------------------------------
(* Decode, twice: after a Decode of a record or of a batch wrapper that    *)
(* returned nil, the caller decodes the same source once more.              *)

\* The caller is about to pass the source of a Decode that returned nil to
\* Decode again, with the destination as that call left it; the runtime
\* chooses the order of the map keys for the new call.
RepeatStep ==
    /\ call.shape \in {"record", "batch"}
    /\ call.res = OK
    /\ call' = [call EXCEPT !.shape = "repeat", !.pre = dst, !.res = "none"]
    /\ keyOrder' \in Orders
    /\ UNCHANGED <<typ, dst, enc, tagCall, conv>>

\* err := Decode(source, &dst), for the second time.
DecodeRepeatStep ==
    /\ call.shape = "repeat"
    /\ call.res = "none"
    /\ \E d \in {Decode(call.arg, dst)} :
         /\ dst' = d.val
         /\ call' = [call EXCEPT !.res = d.err]
    /\ UNCHANGED <<typ, enc, tagCall, conv, keyOrder>>

SpecRepeat ==
    Init /\ [][DecodeRecordStep \/ DecodeBatchStep \/ RepeatStep \/ DecodeRepeatStep]_vars

----------------------------------------------------------------------------
(* The calls of parseTag on its own, next to Encode of the struct whose    *)
(* tags are a lone flag or a lone `meta`.                                   *)

InitParse ==
    /\ typ = "Loose"
    /\ dst = Zero(typ)
    /\ enc = NoEnc
    /\ call = NoCall
    /\ tagCall = NoParse
    /\ conv = NoConv
    /\ keyOrder \in Orders

SpecParse == InitParse /\ [][ParseTagStep \/ EncodeStep]_vars

----------------------------------------------------------------------------
(* The calls of convertElementType on its own: a source and a target type, *)
(* converted twice; the runtime chooses the order of the map keys for each  *)
(* call.                                                                    *)

\* The sources converted: no value at all, a nil interface, a nil and a
\* non-nil pointer, integers of signed and unsigned kinds within and beyond
\* the narrow widths, strings, a boolean, a slice, maps (one with two keys
\* that are the same int8) and a struct.
ConvSources ==
    {Invalid, Zero("any"), Zero("*int"), PtrTo("*int", I(7)),
     I(7), I(300), I(0 - 1), Val("int8", 10), Val("int64", 7),
     Val("uint8", 200), Val("uint16", 3), Val("uint32", 70000), Val("uint64", 3),
     S("7"), S("abc"), B(TRUE),
     Val("[]any", <<ToAny(I(3)), ToAny(S("7"))>>),
     Val("map[string]int", [k \in {"a"} |-> I(10)]),
     Val("map[int]int", (3 :> I(10)) @@ (7 :> I(300))),
     Val("map[int]int", (3 :> I(10)) @@ (259 :> I(300))),
     Val("testtypes.Item1", <<S("t1")>>)}

\* The target types.
ConvTargets ==
    IntegerKinds
    \cup {"string", "bool", "*int", "[]int", "map[string]int", "map[int]int",
          "map[int8]int", "any", "[20]byte", "testtypes.Item1", "testtypes.Item2"}

InitConvert ==
    /\ typ = "Plain"
    /\ dst = Zero(typ)
    /\ enc = NoEnc
    /\ call = NoCall
    /\ tagCall = NoParse
    /\ conv \in [source : ConvSources, targetType : ConvTargets,
                  first : {NoRet}, second : {NoRet}]
    /\ keyOrder \in Orders

\* value, err := convertElementType(source, targetType), for the first and
\* for the second time.
ConvertStep ==
    /\ conv.second = NoRet
    /\ \E c \in {convertElementType(conv.source, conv.targetType)} :
         conv' = IF conv.first = NoRet THEN [conv EXCEPT !.first = c]
                 ELSE [conv EXCEPT !.second = c]
    /\ keyOrder' \in Orders
    /\ UNCHANGED <<typ, dst, enc, call, tagCall>>

SpecConvert == InitConvert /\ [][ConvertStep]_vars

----------------------------------------------------------------------------
(* The vocabulary of the properties: the leaf fields of a struct type.     *)

\* The leaf fields of type t as encode and the decoders reach them: the path
\* of field indices from the struct down, the field, and whether the path
\* goes through a pointer to a struct.
RECURSIVE TypeLeaves(_)
TypeLeaves(t) ==
    UNION {LET f == Fields(t)[i]
               inner == IF Kind(f.type) = "struct" THEN f.type
                        ELSE IF Kind(f.type) = "ptr" /\ Kind(Elem(f.type)) = "struct"
                          THEN Elem(f.type)
                        ELSE ""
           IN  IF inner # ""
                 THEN {[path |-> <<i>> \o l.path, field |-> l.field,
                        ptr |-> l.ptr \/ Kind(f.type) = "ptr"] : l \in TypeLeaves(inner)}
                 ELSE {[path |-> <<i>>, field |-> f, ptr |-> FALSE]} :
             i \in 1..NumField(t)}

Leaves == [t \in AppTypes |-> TypeLeaves(t)]

\* The tag of an annotated leaf, parsed.
TagOf(l) == parseTag(l.field.tag).tag

Annotated(l) == l.field.tag # NoTag /\ parseTag(l.field.tag).err = OK

\* The bin fields of type t, and those among them that name a bin.
BinLeaves(t) == {l \in Leaves[t] : Annotated(l) /\ ~TagOf(l).meta}
NamedBinLeaves(t) == {l \in BinLeaves(t) : TagOf(l).name # ""}

\* The metadata fields of type t.
MetaLeaves(t) ==
    {l \in Leaves[t] : Annotated(l) /\ TagOf(l).meta /\ TagOf(l).name \in MetaNames}

\* The field at the end of the path in struct x, every pointer on the way
\* and the field itself dereferenced: Invalid behind a nil pointer.
RECURSIVE At(_, _)
At(x, path) ==
    IF path = << >> \/ x = Invalid THEN x
    ELSE At(IF Kind(x.v[Head(path)].t) = "ptr" THEN ElemOf(x.v[Head(path)])
            ELSE x.v[Head(path)],
            Tail(path))

\* The field itself at the end of the path, a pointer field not dereferenced.
Raw(x, path) ==
    LET parent == At(x, SubSeq(path, 1, Len(path) - 1)) IN
    IF parent = Invalid THEN Invalid ELSE parent.v[path[Len(path)]]

\* Whether encode visits the leaf of struct x: no nil pointer is on its path.
Visited(x, l) == At(x, SubSeq(l.path, 1, Len(l.path) - 1)) # Invalid

\* The Bins of the Record the last Encode returned.
EncodedBins == enc.rec.v[BinsIndex].v

\* The record the last Decode call decoded (not the record of Encode), and
\* its key, bins and counters.
DecodedRecord == ElemOf(call.r)
DecodedKey == DecodedRecord.v[FieldIndex("testtypes.Record", "Key")]
DecodedBins == DecodedRecord.v[FieldIndex("testtypes.Record", "Bins")].v
DecodedGeneration == DecodedRecord.v[FieldIndex("testtypes.Record", "Generation")].v
DecodedExpiration == DecodedRecord.v[FieldIndex("testtypes.Record", "Expiration")].v

\* The bins of the source of the last Decode call, of either kind.
SourceBins == IF call.shape = "encoded" THEN EncodedBins ELSE DecodedBins

IsPrimitive(t) == t \in IntegerKinds \cup {"string", "bool"}

\* A struct type whose annotated fields are all primitive bin fields without
\* the omit flag.
OnlyPrimitiveBins(t) ==
    \A l \in Leaves[t] :
      l.field.tag # NoTag =>
        /\ Annotated(l)
        /\ ~TagOf(l).meta
        /\ ~TagOf(l).omit
        /\ IsPrimitive(l.field.type)

\* A struct type that embeds the Key, KeyValue and Metadata containers.
EmbedsContainers(t) ==
    {"mapper.Key", "mapper.KeyValue", "mapper.Metadata"}
      \subseteq {Fields(t)[i].type : i \in 1..NumField(t)}

----------------------------------------------------------------------------
(* Properties.                                                             *)

\* C1, as stated: for a struct s of a type with only primitive bin fields
\* without omit, Encode(s) succeeds, Decode(Encode(s), &s2) into a zero s2
\* succeeds, and every bin field of s2 equals that of s.
C1_RoundTripEveryBinField ==
    (enc.res # "none" /\ OnlyPrimitiveBins(typ)) =>
      /\ enc.res = OK
      /\ (call.shape = "encoded" /\ call.pre = Zero(typ)) =>
           /\ call.res = OK
           /\ \A l \in BinLeaves(typ) : At(dst, l.path) = At(enc.s, l.path)

\* C1, amended: the same round trip reproduces every bin field that names a
\* bin and is not reached through a pointer to a struct (a field without a
\* bin name is neither encoded nor decoded, and Decode does not allocate the
\* struct behind a nil pointer).
C1_RoundTripNamedBinFields ==
    (enc.res # "none" /\ OnlyPrimitiveBins(typ)) =>
      /\ enc.res = OK
      /\ (call.shape = "encoded" /\ call.pre = Zero(typ)) =>
           /\ call.res = OK
           /\ \A l \in NamedBinLeaves(typ) :
                ~l.ptr => At(dst, l.path) = At(enc.s, l.path)

\* A round trip that carried a non-zero signed, unsigned and string field.
C1_Witness ==
    /\ typ = "Plain"
    /\ call.shape = "encoded"
    /\ call.pre = Zero(typ)
    /\ call.res = OK
    /\ \E l \in NamedBinLeaves(typ) :
         /\ l.field.type = "uint64"
         /\ At(enc.s, l.path) = Val("uint64", 3)
         /\ At(dst, l.path) = Val("uint64", 3)
    /\ \E l \in NamedBinLeaves(typ) :
         /\ l.field.type = "int8"
         /\ At(enc.s, l.path) = Val("int8", 0 - 1)
         /\ At(dst, l.path) = Val("int8", 0 - 1)

\* C2, as stated: for a struct s that embeds the Key, KeyValue and Metadata
\* containers, Decode(Encode(s), &s2) succeeds and reproduces s's namespace,
\* set name, digest, user key, generation and expiration in s2.
C2_MetadataRoundTrip ==
    (call.shape = "encoded" /\ EmbedsContainers(typ) /\ call.pre = Zero(typ)) =>
      /\ call.res = OK
      /\ \A l \in MetaLeaves(typ) : At(dst, l.path) = At(enc.s, l.path)

\* The key a metadata field of the given name is decoded to, for a key whose
\* user key is set.
KeyPart(key, name) ==
    CASE name = metaTagNamespace -> CallMethod(key, "Namespace")
      [] name = metaTagSetName -> CallMethod(key, "SetName")
      [] name = metaTagDigest -> Val("[20]byte", CallMethod(key, "Digest").v)
      [] name = metaTagUserKey ->
           IF IsNil(CallMethod(key, "Value")) THEN Zero("any")
           ELSE GetObject(ElemOf(CallMethod(key, "Value")))
      [] name = metaTagGeneration -> Val("uint32", DecodedGeneration)
      [] name = metaTagExpiration -> Val("uint32", DecodedExpiration)

\* C3, as stated: decoding a record with a non-nil key (and no bins) into a
\* zero destination that embeds the Key, KeyValue and Metadata containers
\* succeeds and leaves the key's namespace, set name, user value and digest
\* and the record's generation and expiration in the destination.
C3_KeyAndCountersDecoded ==
    (/\ call.shape = "record"
     /\ EmbedsContainers(typ)
     /\ call.pre = Zero(typ)
     /\ ~IsNil(DecodedKey)
     /\ DOMAIN DecodedBins = {}) =>
      /\ call.res = OK
      /\ \A l \in MetaLeaves(typ) :
           At(dst, l.path) = KeyPart(ElemOf(DecodedKey), TagOf(l).name)

\* The other way to decode the record of the last Decode call: through a
\* batch wrapper if it was decoded directly, directly if through a wrapper.
OtherDecode ==
    Decode(IF call.shape = "record" THEN BatchRead(call.r) ELSE call.r, call.pre)

C5_OmitNeverEncoded ==
    enc.res = OK =>
      \A l \in NamedBinLeaves(typ) :
        TagOf(l).omit => TagOf(l).name \notin DOMAIN EncodedBins

\* An Encode of a struct whose omit field is set, next to a field that is
\* encoded.
C5_Witness ==
    /\ enc.res = OK
    /\ \E l \in NamedBinLeaves(typ) :
         /\ TagOf(l).omit
         /\ At(enc.s, l.path) = S("t1")
    /\ "title" \in DOMAIN EncodedBins
    /\ EncodedBins["title"] = ToAny(S("t1"))

\* C6, as stated: for a bin field tagged omitempty, Bins has no entry under
\* its name if the field holds its zero value, and if it holds a non-zero
\* value (a non-nil pointer included) Bins[name] is present and equals that
\* value (the pointer or what it points to).
C6_OmitemptyByZeroValue ==
    enc.res = OK =>
      \A l \in NamedBinLeaves(typ) :
        (TagOf(l).omitempty /\ ~TagOf(l).omit /\ Visited(enc.s, l)) =>
          IF Raw(enc.s, l.path) = Zero(l.field.type)
            THEN TagOf(l).name \notin DOMAIN EncodedBins
            ELSE /\ TagOf(l).name \in DOMAIN EncodedBins
                 /\ EncodedBins[TagOf(l).name]
                      \in {ToAny(Raw(enc.s, l.path)), ToAny(At(enc.s, l.path))}

\* C7: for every visited bin field that names a bin and has neither omit nor
\* omitempty, Encode writes an entry under that name: the zero value of the
\* field's declared type if the field is empty, the field's value otherwise.
C7_EmptyFieldZeroed ==
    enc.res = OK =>
      \A l \in NamedBinLeaves(typ) :
        (~TagOf(l).omit /\ ~TagOf(l).omitempty /\ Visited(enc.s, l)) =>
          /\ TagOf(l).name \in DOMAIN EncodedBins
          /\ EncodedBins[TagOf(l).name] =
               ToAny(IF isEmptyValue(At(enc.s, l.path))
                       THEN Zero(l.field.type)
                       ELSE At(enc.s, l.path))

\* An Encode that wrote a zero for an empty field and the value of a set one.
C7_Witness ==
    /\ enc.res = OK
    /\ typ = "testtypes.Item"
    /\ "length" \in DOMAIN EncodedBins
    /\ EncodedBins["length"] = ToAny(I(0))
    /\ "list" \in DOMAIN EncodedBins
    /\ EncodedBins["list"] = ToAny(Val("[]int", <<I(3), I(7)>>))
    /\ "size" \in DOMAIN EncodedBins
    /\ EncodedBins["size"] = ToAny(Val("uint64", 0))

\* C8: a destination field whose bin name is absent from the bins of the
\* record decoded is after Decode exactly as it was before, whatever the call returns; and
\* when no bin of the source bears the name of a field and the destination
\* has no metadata field, Decode returns nil and changes nothing.
C8_AbsentBinLeavesField ==
    call.shape \in {"encoded", "record", "batch"} =>
      /\ \A l \in NamedBinLeaves(typ) :
           TagOf(l).name \notin DOMAIN SourceBins =>
             Raw(dst, l.path) = Raw(call.pre, l.path)
      /\ (\A l \in Leaves[typ] :
            Annotated(l) =>
              /\ ~TagOf(l).meta
              /\ TagOf(l).name = "" \/ TagOf(l).name \notin DOMAIN SourceBins) =>
           /\ call.res = OK
           /\ dst = call.pre

\* A Decode into a destination with every field set that changed one bin
\* field and had no bin for another, and one whose record had no bin for
\* any field.
C8_Witness ==
    /\ call.shape = "record"
    /\ call.pre = Old(typ)
    /\ call.res = OK
    /\ \/ /\ \E l \in NamedBinLeaves(typ) :
               /\ TagOf(l).name \in DOMAIN SourceBins
               /\ Raw(dst, l.path) # Raw(call.pre, l.path)
          /\ \E l \in NamedBinLeaves(typ) :
               /\ TagOf(l).name \notin DOMAIN SourceBins
               /\ ~isEmptyValue(At(dst, l.path))
       \/ /\ typ = "Loose"
          /\ DOMAIN SourceBins = {""}

\* Whether the uint32 value x exceeds the range of the integer kind k.
Exceeds(k, x) ==
    CASE k = "int8" -> x > 127
      [] k = "uint8" -> x > 255
      [] k = "int16" -> x > 32767
      [] k = "uint16" -> x > 65535
      [] OTHER -> FALSE

\* The counter of the decoded record a metadata field of that name reads.
Counter(name) ==
    IF name = metaTagGeneration THEN DecodedGeneration ELSE DecodedExpiration

CounterLeaves(t) == {l \in MetaLeaves(t) : TagOf(l).name \in DOMAIN CounterField}

\* C9, as stated: decoding a record whose generation or expiration exceeds
\* the range of the integer type of the destination metadata field makes
\* Decode return an overflow error, and that field is not assigned.
C9_OverflowIsAnError ==
    (/\ call.shape \in {"record", "batch"}
     /\ typ \in CounterTypes
     /\ DOMAIN DecodedBins = {}
     /\ \E l \in CounterLeaves(typ) :
          Exceeds(Kind(l.field.type), Counter(TagOf(l).name))) =>
      /\ call.res \in {n \o ": " \o OverflowError(CounterKind[typ]) :
                         n \in DOMAIN CounterField}
      /\ \A l \in CounterLeaves(typ) :
           Exceeds(Kind(l.field.type), Counter(TagOf(l).name)) =>
             Raw(dst, l.path) = Raw(call.pre, l.path)

\* C10, as stated: for every integer kind of destination metadata field and
\* every generation and expiration of the source record that fit in that
\* kind, Decode succeeds and the field holds exactly that value.
C10_FittingCounterDecoded ==
    (/\ call.shape \in {"record", "batch"}
     /\ typ \in CounterTypes
     /\ DOMAIN DecodedBins = {}
     /\ \A l \in CounterLeaves(typ) :
          ~Exceeds(Kind(l.field.type), Counter(TagOf(l).name))) =>
      /\ call.res = OK
      /\ \A l \in CounterLeaves(typ) :
           Raw(dst, l.path) = Val(l.field.type, Counter(TagOf(l).name))

\* The struct a Decode source resolves to (Invalid if to none), as
\* structValue finds it.
Resolved(x) == structValue(x, FALSE).val

\* Whether field i of the source struct is a part of a record as Decode
\* tells it: a struct called BatchRecord or Record, a map called Bins, a
\* uint32 called Generation or Expiration.
RecordComponent(x, i) ==
    LET k == Kind(fieldValueDeref(x, i).t)
        n == Fields(x.t)[i].name
    IN  \/ k = "struct" /\ n \in {"BatchRecord", "Record"}
        \/ k = "map" /\ n = "Bins"
        \/ k = "uint32" /\ n \in {"Generation", "Expiration"}

\* Whether field i is a key as Decode tells it: a struct called Key.
KeyComponent(x, i) ==
    Kind(fieldValueDeref(x, i).t) = "struct" /\ Fields(x.t)[i].name = "Key"

\* C11, as stated: Decode returns ErrInvalidSourceType for a source that is
\* neither a struct nor a pointer to one, and ErrInvalidSource for a struct
\* with no part of a record (no batch record, record, bin map or bare
\* counter); in both cases the destination is as it was.
C11_InvalidSourceUntouched ==
    call.shape = "source" =>
      \A x \in {Resolved(call.arg)} :
        /\ x = Invalid => call.res = ErrInvalidSourceType /\ dst = call.pre
        /\ (x # Invalid /\ \A i \in 1..NumField(x.t) : ~RecordComponent(x, i)) =>
              call.res = ErrInvalidSource /\ dst = call.pre

\* C11, amended: the same, for a struct that has no key either (a struct
\* whose only part of a record is a key has the key decoded into the
\* destination before Decode ends).
C11_InvalidSourceWithoutKeyUntouched ==
    call.shape = "source" =>
      \A x \in {Resolved(call.arg)} :
        /\ x = Invalid => call.res = ErrInvalidSourceType /\ dst = call.pre
        /\ (/\ x # Invalid
            /\ \A i \in 1..NumField(x.t) :
                 ~RecordComponent(x, i) /\ ~KeyComponent(x, i)) =>
              call.res = ErrInvalidSource /\ dst = call.pre

\* A struct without any part of a record was turned down as no record, with
\* a destination whose fields were all set and stayed so.
C11_Witness ==
    /\ call.shape = "source"
    /\ typ = "testtypes.Item"
    /\ call.pre = Old(typ)
    /\ dst = call.pre
    /\ call.arg = Val("testtypes.Item1", <<S("t1")>>)
    /\ call.res = ErrInvalidSource

\* C12, as stated: a source struct whose only parts of a record are bare
\* uint32 Generation/Expiration fields is decoded as a record: Decode
\* returns nil and the destination's generation and expiration fields hold
\* the source's values.
C12_BareCountersDecoded ==
    (/\ call.shape = "source"
     /\ call.arg.t = "mapper.Metadata"
     /\ \A l \in CounterLeaves(typ) :
          ~Exceeds(Kind(l.field.type), getField(call.arg, CounterField[TagOf(l).name]).val.v)) =>
      /\ call.res = OK
      /\ \A l \in CounterLeaves(typ) :
           Raw(dst, l.path) =
             Val(l.field.type, getField(call.arg, CounterField[TagOf(l).name]).val.v)

\* The order in which a decoder reaches the leaves: path p comes before q.
RECURSIVE Before(_, _)
Before(p, q) ==
    /\ p # << >>
    /\ q # << >>
    /\ \/ Head(p) < Head(q)
       \/ Head(p) = Head(q) /\ Before(Tail(p), Tail(q))

\* Whether the bin decode of the last call has a bin for the leaf and a
\* settable field to put it in, and what the bin converts to.
HasBin(l) ==
    /\ Annotated(l)
    /\ TagOf(l).name \in DOMAIN DecodedBins
    /\ At(call.pre, l.path) # Invalid

Converted(l) == convertElementType(DecodedBins[TagOf(l).name], l.field.type)

\* C13: a Decode of a record that returns an error returns the error of the
\* first field, in traversal order, whose bin does not convert; every field
\* before it that has a bin holds the converted bin, the key fields hold the
\* key (decoded before the bins), the counters hold the record's counters if
\* they were decoded before the bins (in a wrapper) and every other field,
\* the failing one and the ones after it included, is as it was.  A Decode of
\* an encoded Record that fails at its first key field changes nothing.
C13_FirstErrorNoRollback ==
    /\ (call.shape \in {"record", "batch"} /\ call.res \notin {OK, Panic}) =>
         \E f \in Leaves[typ] :
           /\ HasBin(f)
           /\ Converted(f).err # OK
           /\ call.res = "error converting value for field " \o f.field.name
                            \o ": " \o Converted(f).err
           /\ \A l \in Leaves[typ] :
                IF Before(l.path, f.path) /\ HasBin(l)
                  THEN /\ Converted(l).err = OK
                       /\ At(dst, l.path) = SetValue(At(call.pre, l.path), Converted(l).val)
                ELSE IF /\ l \in MetaLeaves(typ)
                        /\ TagOf(l).name \notin DOMAIN CounterField
                        /\ ~IsNil(DecodedKey)
                  THEN At(dst, l.path) = KeyPart(ElemOf(DecodedKey), TagOf(l).name)
                ELSE IF l \in CounterLeaves(typ) /\ call.shape = "batch"
                  THEN Raw(dst, l.path) = Val(l.field.type, Counter(TagOf(l).name))
                ELSE Raw(dst, l.path) = Raw(call.pre, l.path)
    /\ (call.shape = "encoded" /\ call.res \notin {OK, Panic}) => dst = call.pre

\* A Decode that failed at a field after it had assigned an earlier one, with
\* a bin for a later field that it left alone.
C13_Witness ==
    /\ call.shape = "record"
    /\ call.pre = Old(typ)
    /\ call.res \notin {OK, Panic}
    /\ \E f, l \in NamedBinLeaves(typ) :
         /\ Before(l.path, f.path)
         /\ HasBin(f)
         /\ Converted(f).err # OK
         /\ HasBin(l)
         /\ Raw(dst, l.path) # Raw(call.pre, l.path)
    /\ \E f, l \in NamedBinLeaves(typ) :
         /\ Before(f.path, l.path)
         /\ HasBin(f)
         /\ Converted(f).err # OK
         /\ HasBin(l)
         /\ Raw(dst, l.path) = Raw(call.pre, l.path)

\* C14: after Encode(&s) returns, with a record or with an error, the struct
\* s, its sub-structs and what its pointers point to included, is as it was
\* before the call.
C14_EncodeLeavesInput ==
    enc.res # "none" => enc.after = enc.s

\* An Encode that copied a metadata field of its input into the record and
\* went through an allocated sub-struct.
C14_Witness ==
    /\ enc.res = OK
    /\ typ = "testtypes.Item"
    /\ RecordField(enc.rec, MetaSlot[metaTagNamespace]) = S("t1")
    /\ \E l \in MetaLeaves(typ) :
         TagOf(l).name = metaTagNamespace /\ At(enc.after, l.path) = S("t1")
    /\ \E l \in Leaves[typ] : l.ptr /\ Visited(enc.s, l)

C16_NilSubStructStaysNil ==
    call.shape # "none" =>
      /\ \A l \in Leaves[typ] :
           (l.ptr /\ At(call.pre, l.path) = Invalid) => At(dst, l.path) = Invalid
      /\ (/\ call.shape \in {"record", "batch"}
          /\ MetaLeaves(typ) = {}
          /\ \A l \in Leaves[typ] : ~HasBin(l)) =>
           call.res = OK /\ dst = call.pre

\* A Decode of a record with bins for the fields of a nil sub-struct, one of
\* which the field's type cannot take: the call returned nil and the pointer
\* is nil as before.
C16_Witness ==
    /\ call.shape = "record"
    /\ call.res = OK
    /\ typ = "Plain"
    /\ DOMAIN DecodedBins = {"name", "size"}
    /\ DecodedBins["size"] = ToAny(I(3))
    /\ \E l \in Leaves[typ] :
         /\ l.ptr
         /\ TagOf(l).name = "size"
         /\ At(call.pre, l.path) = Invalid
         /\ At(dst, l.path) = Invalid
         /\ Converted(l).err # OK

\* The tokens of a tag string, trimmed, and those among them that are none
\* of the three flags.
RECURSIVE TrimAll(_)
TrimAll(parts) ==
    IF parts = << >> THEN << >>
    ELSE <<TrimSpace(Head(parts))>> \o TrimAll(Tail(parts))

Tokens(s) == TrimAll(Split(s))

IsFlag(token) == token \in {tagValueMeta, tagValueOmit, tagValueOmitempty}

NameTokens(s) == SelectSeq(Tokens(s), LAMBDA token : ~IsFlag(token))

\* C17, as stated: every token that is none of the three flags is a name
\* token; a tag string with two or more of them yields an error and the zero
\* tag, one with at most one parses, and the first name token is the name.
C17_AtMostOneNameToken ==
    tagCall # NoParse =>
      \A n \in {NameTokens(tagCall.s)} :
        IF Len(n) >= 2
          THEN tagCall.err # OK /\ tagCall.tag = ZeroTag
          ELSE /\ tagCall.err = OK
               /\ (Len(n) = 1 /\ n[1] # "") => tagCall.tag.name = n[1]

\* Whether the tag string has the meta token and no name: every token that
\* is no flag is empty.
MetaWithoutName(s) ==
    /\ \E i \in 1..Len(Tokens(s)) : Tokens(s)[i] = tagValueMeta
    /\ \A i \in 1..Len(NameTokens(s)) : NameTokens(s)[i] = ""

\* C18: a tag that parseTag returns without an error has a name if it has
\* the meta flag, and a tag string with the meta token and no name yields
\* meta = false and name = "meta"; Encode treats a field with such a tag as
\* the bin field named "meta" (written unless an omit flag leaves it out) and
\* stores nothing in the key, generation or expiration of the Record for it.
C18_MetaNeedsName ==
    /\ (tagCall # NoParse /\ tagCall.err = OK) =>
         /\ tagCall.tag.meta => tagCall.tag.name # ""
         /\ MetaWithoutName(tagCall.s) =>
              ~tagCall.tag.meta /\ tagCall.tag.name = tagValueMeta
    /\ enc.res = OK =>
         \A l \in Leaves[typ] :
           (/\ l.field.tag # NoTag
            /\ MetaWithoutName(l.field.tag)
            /\ Visited(enc.s, l)) =>
             /\ l \in NamedBinLeaves(typ)
             /\ ~skipField(TagOf(l), isEmptyValue(At(enc.s, l.path))) =>
                  /\ tagValueMeta \in DOMAIN EncodedBins
                  /\ EncodedBins[tagValueMeta] =
                       ToAny(IF isEmptyValue(At(enc.s, l.path))
                               THEN Zero(l.field.type)
                               ELSE At(enc.s, l.path))
             /\ MetaLeaves(typ) = {} =>
                  \A n \in MetaNames :
                    RecordField(enc.rec, MetaSlot[n]) = RecordField(NewRecord, MetaSlot[n])

\* An Encode of a struct with a set field tagged `meta`: the tag parses to
\* the bin name "meta", the bin holds the field and the Record's key and
\* counters are empty.
C18_Witness ==
    /\ enc.res = OK
    /\ \E l \in Leaves[typ] :
         /\ l.field.tag = <<tagValueMeta>>
         /\ parseTag(l.field.tag) =
              [err |-> OK, tag |-> [ZeroTag EXCEPT !.name = tagValueMeta]]
         /\ At(enc.s, l.path) = S("t1")
         /\ EncodedBins[tagValueMeta] = ToAny(S("t1"))
    /\ \A n \in MetaNames :
         RecordField(enc.rec, MetaSlot[n]) = RecordField(NewRecord, MetaSlot[n])

\* The slot of the new Record a metadata field is routed to.
Slot(l) == RecordField(NewRecord, MetaSlot[TagOf(l).name])

\* The metadata fields of the encoded struct that are not empty and whose
\* type is not that of their slot.
Mismatched ==
    {l \in MetaLeaves(typ) :
       /\ ~isEmptyValue(At(enc.s, l.path))
       /\ At(enc.s, l.path).t # Slot(l).t}

\* The text of setMetadata's error for the field.
MismatchError(l) ==
    "type mismatch for tag '" \o TagOf(l).name \o "': source "
      \o At(enc.s, l.path).t \o ", record " \o Slot(l).t

\* C19: if a metadata field of the encoded struct is not empty and its type
\* differs from its slot's, Encode returns the type-mismatch error of such a
\* field and no Record; otherwise Encode succeeds, the slot of every
\* non-empty metadata field holds the field's value, and the slot of every
\* empty one (of whatever type) holds its zero value.
C19_MetadataRouting ==
    enc.res # "none" =>
      IF Mismatched # {}
        THEN /\ enc.res \in {MismatchError(l) : l \in Mismatched}
             /\ enc.rec = Invalid
        ELSE /\ enc.res = OK
             /\ \A l \in MetaLeaves(typ) :
                  RecordField(enc.rec, MetaSlot[TagOf(l).name]) =
                    IF isEmptyValue(At(enc.s, l.path)) THEN Slot(l)
                    ELSE At(enc.s, l.path)

\* An Encode that passed over an empty generation field of a signed type and
\* failed on the expiration field of that type, which was set.
C19_Witness ==
    /\ typ = "CountersInt16"
    /\ enc.rec = Invalid
    /\ enc.res = "type mismatch for tag 'expiration': source int16, record uint32"
    /\ \E l \in MetaLeaves(typ) :
         /\ TagOf(l).name = metaTagGeneration
         /\ At(enc.s, l.path) = Val("int16", 0)

\* C20, as stated: the bin decode writes to no metadata field, so after a
\* Decode of a record that returns nil every metadata field of the
\* destination holds what the key decode and the metadata decode give it
\* (the key's part, the record's counter, or its old content if the record
\* has no key), whatever bins the record has.
C20_BinsNeverWriteMetadata ==
    (call.shape \in {"record", "batch"} /\ call.res = OK) =>
      \A l \in MetaLeaves(typ) :
        At(dst, l.path) =
          IF TagOf(l).name \in DOMAIN CounterField
            THEN Val(l.field.type, Counter(TagOf(l).name))
          ELSE IF IsNil(DecodedKey) THEN At(call.pre, l.path)
          ELSE KeyPart(ElemOf(DecodedKey), TagOf(l).name)

\* C21, as stated: after a Decode of a record that returns nil, every bin
\* field of the destination that names a bin of the record (and lies behind
\* no nil pointer to a sub-struct) holds the bin converted to the field's
\* declared type: for a field of pointer type, nil or allocated before the
\* call, a pointer to the converted pointee.
C21_BinFieldHoldsCoercedBin ==
    (call.shape \in {"record", "batch"} /\ call.res = OK) =>
      \A l \in NamedBinLeaves(typ) :
        (TagOf(l).name \in DOMAIN DecodedBins /\ Visited(call.pre, l)) =>
          /\ Converted(l).err = OK
          /\ Raw(dst, l.path) = Converted(l).val

----------------------------------------------------------------------------
(* convertElementType.                                                     *)

\* C22, the conversion: an absent source (the invalid value, a nil interface
\* or a nil pointer) converts to the zero value of the target type without
\* an error, whatever the target type.
C22_AbsentSourceIsZero ==
    \A c \in {conv.first, conv.second} :
      (/\ c # NoRet
       /\ \/ conv.source = Invalid
          \/ Kind(conv.source.t) \in {"interface", "ptr"} /\ IsNil(conv.source)) =>
        c = Ret(OK, Zero(conv.targetType))

\* C22, the consequence as stated: a Decode of a record (without a key) that
\* has a nil bin under the name of a bin field resets the field to the zero
\* value of its type.
C22_NilBinResetsField ==
    (call.shape \in {"record", "batch"} /\ IsNil(DecodedKey)) =>
      \A l \in NamedBinLeaves(typ) :
        (/\ TagOf(l).name \in DOMAIN DecodedBins
         /\ IsNil(DecodedBins[TagOf(l).name])
         /\ Visited(call.pre, l)) =>
          /\ call.res # Panic
          /\ call.res = OK => Raw(dst, l.path) = Zero(l.field.type)

\* C23, as stated: an integer of any kind, signed or unsigned, converts to
\* every integer type other than its own without an error, and the result is
\* the value wrapped to the width of the target.
C23_IntegerNarrowingWraps ==
    (/\ conv.first # NoRet
     /\ Kind(conv.source.t) \in IntegerKinds
     /\ Kind(conv.targetType) \in IntegerKinds
     /\ conv.source.t # conv.targetType) =>
       conv.first = Ret(OK, Val(conv.targetType,
                                ConvertInt(conv.source.v, Kind(conv.targetType))))

\* C24, as stated: two conversions of the same map to a map type with other
\* key or value types give the same result, whatever the order in which the
\* entries of the source are visited.
C24_MapOrderIrrelevant ==
    (/\ conv.second # NoRet
     /\ Kind(conv.source.t) = "map"
     /\ Kind(conv.targetType) = "map"
     /\ conv.source.t # conv.targetType) =>
       conv.first = conv.second

----------------------------------------------------------------------------
(* Decode as a whole.                                                      *)

\* C25, as stated: a Decode of a record or of a batch wrapper returns nil or
\* an error and never panics.
C25_DecodeNeverPanics ==
    call.shape \in {"encoded", "record", "batch"} => call.res # Panic

----------------------------------------------------------------------------
(* Encode and the fields of struct kind.                                   *)

----------------------------------------------------------------------------
(* Decode, twice.                                                          *)

\* C27, as stated: a second Decode of the same source into the destination
\* that a first Decode left, the first having returned nil, returns nil too
\* and leaves the destination as it was.
C27_DecodeIdempotent ==
    (call.shape = "repeat" /\ call.res # "none") =>
      /\ call.res = OK
      /\ dst = call.pre

----------------------------------------------------------------------------
(* The batch wrapper of a record that was not found.                       *)

\* C28, as stated: Decode of a batch-read wrapper whose record pointer is nil
\* returns ErrInvalidSource, and every bin field and every generation or
\* expiration field of the destination is as it was before the call.
C28_NotFoundIsInvalidSource ==
    (/\ call.shape = "source"
     /\ call.arg.t = "testtypes.BatchRead"
     /\ IsNil(getField(getField(call.arg, "BatchRecord").val, "Record").val)) =>
      /\ call.res = ErrInvalidSource
      /\ \A l \in BinLeaves(typ) \cup CounterLeaves(typ) :
           Raw(dst, l.path) = Raw(call.pre, l.path)

=============================================================================
